---- MODULE Spec2Model ----
(***************************************************************************)
(* Model of the RAG question-answering backend (FastAPI application):      *)
(*   - POST /api/ask          routes.py   ask_question                      *)
(*   - the answer composer    generation.py AnswerGenerator                 *)
(*   - the interaction log    database.py Database                          *)
(*   - the vector collection  retrieval.py FAQRetriever                     *)
(*   - application startup    main.py     startup_event                     *)
(*                                                                         *)
(* External services (embedding model, generative model, Qdrant, SQLite)   *)
(* are the environment: every call to one of them either returns or        *)
(* raises, chosen nondeterministically.                                    *)
(*                                                                         *)
(* Text is modelled as a sequence of tokens; a token is a pair             *)
(* <<kind, n>>.  A Python f-string is the concatenation of the token       *)
(* sequences of its parts, so "contains verbatim" is "has as a contiguous  *)
(* sub-sequence".                                                          *)
(***************************************************************************)
EXTENDS Naturals, Integers, Sequences, FiniteSets, TLC

\* ------------------------------------------------------------------ bounds

\* number of /api/ask requests in flight in one behaviour
NumReq == 2
\* number of FAQ entries in the bundled dataset (legal_faqs.json)
NumFaqs == 2
\* largest elapsed time (ms) a time.time() difference takes
MaxElapsed == 1
\* number of times the process is started in one behaviour
MaxStartups == 3
\* number of rows recorded in the interactions table on its own
MaxRows == 3
\* number of seconds the clock advances
MaxClock == 1

\* ------------------------------------------------------- program constants

\* QueryRequest.query: Field(min_length=5, max_length=500)
MinQueryLen == 5
MaxQueryLen == 500
\* Settings.top_k_results
TopK == 2
\* Settings.similarity_threshold (0.6), scores are kept in hundredths
Threshold == 60
\* default of the limit parameter of GET /api/logs
DefaultLimit == 50

Reqs == 1..NumReq
FaqIdx == 0..(NumFaqs - 1)

\* ------------------------------------------------------------------- text

Lit(s) == <<s, 0>>
Str(s) == << Lit(s) >>

\* a is a contiguous sub-sequence of b
Contains(b, a) ==
    \E i \in 0..(Len(b) - Len(a)) :
        \A j \in 1..Len(a) : b[i + j] = a[j]

\* routes.py: the answer of the no-results branch
NOT_FOUND ==
    Str("I couldn't find any relevant information in our FAQ database for your question. This might be outside the scope of our current knowledge base. Please consider rephrasing your question or consulting with a legal professional directly.")

\* routes.py: the detail of the HTTPException raised on failure
GENERIC_DETAIL ==
    Str("An error occurred while processing your question. Please try again.")

\* generation.py: the parts of the fallback response
APOLOGY ==
    Str("I apologize, but I'm unable to provide an answer at this time. Please try again later or consult with a legal professional.")
FALLBACK_HEAD == Str("Based on our FAQ database:")
FALLBACK_DISCLAIMER ==
    Str("Note: This is general legal information from our FAQ database. For advice specific to your situation, please consult with a qualified attorney.")
FALLBACK_UNAVAILABLE ==
    Str("(AI generation temporarily unavailable - showing direct FAQ match)")

\* json.dumps of a list of strings / of numbers
RECURSIVE JsonItems(_, _)
JsonItems(kind, s) ==
    IF Len(s) = 0 THEN <<>>
    ELSE IF Len(s) = 1 THEN << <<kind, s[1]>> >>
    ELSE << <<kind, s[1]>>, Lit(", ") >> \o JsonItems(kind, Tail(s))
JsonDumps(kind, s) == << Lit("[") >> \o JsonItems(kind, s) \o << Lit("]") >>

\* ------------------------------------------------------------ the dataset

\* schemas.py FAQ: the i-th entry of the bundled dataset
Faq(i) ==
    [ id       |-> i,
      question |-> << <<"question", i>> >>,
      answer   |-> << <<"answer", i>> >>,
      category |-> << <<"category", i>> >> ]

\* retrieval.py index_faqs: the payload of the point stored for an entry
Payload(faq) ==
    [ faq_id   |-> faq.id,
      question |-> faq.question,
      answer   |-> faq.answer,
      category |-> faq.category ]

\* retrieval.py index_faqs: points idx -> payload for enumerate(faqs)
IndexedPoints == [ idx \in FaqIdx |-> Payload(Faq(idx)) ]

\* --------------------------------------------------------- the exceptions

\* str(e) of the exceptions the external calls raise
EMBED_ERROR  == << <<"embedding provider error", 1>> >>
SEARCH_ERROR == << <<"vector store error", 2>> >>
DB_ERROR     == << <<"log store error", 3>> >>
GEN_ERROR    == << <<"generative model error", 4>> >>
NO_ERROR     == <<>>

\* the text the generative model returns
GEN_TEXT == << <<"generated answer", 1>> >>


\* --------------------------------------------------------------- variables

VARIABLES
    pc,                 \* request -> position in ask_question
    request,            \* request -> QueryRequest (query, include_sources)
    retrieved,          \* request -> retrieved_faqs
    answer,             \* request -> answer
    sources,            \* request -> sources
    response_time_ms,   \* request -> response_time_ms
    error,              \* request -> str(e) of the exception being handled
    response,           \* request -> what the caller receives
    hist,               \* request -> the external calls made, with outcomes
    written,            \* request -> ids of the rows its inserts committed
    interactions,       \* the interactions table, in insertion order
    collection,         \* the Qdrant collection: point id -> payload
    spc,                \* position in startup_event
    faq_count,          \* startup_event's faq_count
    startups,           \* number of process starts so far
    runCalls,           \* external calls made by the current startup run
    bootCollection,     \* the collection as the current startup run found it
    cpc,                \* generate_answer called alone: position
    cArgs,              \* generate_answer: user_query, retrieved_faqs
    cPrompt,            \* generate_answer: messages sent to the model
    cOut,               \* generate_answer: returned text
    now,                \* the clock CURRENT_TIMESTAMP reads, in seconds
    logsCall,           \* the last GET /api/logs: limit, rows seen, response
    statsCall,          \* the last GET /api/stats: rows seen, response
    openaiKey,          \* Settings.openai_api_key
    healthCall          \* the last GET /api/health: store reachable, response

reqVars == << pc, request, retrieved, answer, sources, response_time_ms,
              error, response, hist, written, interactions >>
startVars == << spc, faq_count, startups, runCalls, bootCollection >>
compVars == << cpc, cArgs, cPrompt, cOut >>
readVars == << now, logsCall, statsCall >>
healthVars == << openaiKey, healthCall >>
vars == << reqVars, collection, startVars, compVars, readVars, healthVars >>
\* what a request handler leaves alone
others == << collection, startVars, compVars, readVars, healthVars >>
\* the request handlers' own state, the table apart
handlerVars == << pc, request, retrieved, answer, sources, response_time_ms,
                 error, response, hist, written >>

\* ------------------------------------------------------------- input sets

\* lengths of the query strings submitted (a query is its length)
QueryLens == { MinQueryLen - 1, MinQueryLen, MaxQueryLen, MaxQueryLen + 1 }

\* cosine similarities (hundredths) a stored point can have to a query
ScoreValues == { Threshold - 10, Threshold, Threshold + 25 }

Elapsed == 0..MaxElapsed

\* outcomes of the chat completion call: text, an exception, or a
\* completion whose message.content is None (len(None) raises TypeError)
GenOutcomes == { "text", "raise", "none" }

\* ------------------------------------------------------ similarity search

SeqsUpTo(S, n) == UNION { [1..m -> S] : m \in 0..n }

Min2(a, b) == IF a < b THEN a ELSE b

\* QdrantClient.search(collection, query_vector, limit, score_threshold):
\* the limit best points scoring at least the threshold, best first
QdrantSearch(coll, sim, limit, score_threshold) ==
    LET eligible == { p \in DOMAIN coll : sim[p] >= score_threshold }
    IN  { s \in SeqsUpTo(eligible, limit) :
            /\ Len(s) = Min2(limit, Cardinality(eligible))
            /\ \A i, j \in 1..Len(s) : i < j =>
                   s[i] # s[j] /\ sim[s[i]] >= sim[s[j]]
            /\ \A p \in eligible :
                   (\A i \in 1..Len(s) : s[i] # p) =>
                       \A i \in 1..Len(s) : sim[s[i]] >= sim[p] }

\* schemas.py RetrievedFAQ built from a search hit
RetrievedFAQ(payload, score) ==
    [ faq_id           |-> payload.faq_id,
      question         |-> payload.question,
      answer           |-> payload.answer,
      category         |-> payload.category,
      similarity_score |-> score ]

\* FAQRetriever.search: the hits, in the order Qdrant returns them
search(coll, sim, top_k, score_threshold) ==
    { [ i \in 1..Len(s) |-> RetrievedFAQ(coll[s[i]], sim[s[i]]) ] :
        s \in QdrantSearch(coll, sim, top_k, score_threshold) }

\* every list search can return on the collection
SearchResults(coll) ==
    UNION { search(coll, sim, TopK, Threshold) :
              sim \in [DOMAIN coll -> ScoreValues] }

\* --------------------------------------------------------- answer composer

\* faulty variant: the fallback quotes the last retrieved entry, not the first
get_fallback_response_last(retrieved_faqs) ==
    IF Len(retrieved_faqs) = 0 THEN APOLOGY
    ELSE LET best_faq == retrieved_faqs[Len(retrieved_faqs)]
         IN  FALLBACK_HEAD \o best_faq.answer \o FALLBACK_DISCLAIMER
                 \o FALLBACK_UNAVAILABLE

\* AnswerGenerator._get_fallback_response
get_fallback_response(retrieved_faqs) ==
    IF Len(retrieved_faqs) = 0 THEN APOLOGY
    ELSE LET best_faq == retrieved_faqs[1]
         IN  FALLBACK_HEAD \o best_faq.answer \o FALLBACK_DISCLAIMER
                 \o FALLBACK_UNAVAILABLE

\* AnswerGenerator.generate_answer: the try returns the model's text, the
\* except returns the fallback
generate_answer(retrieved_faqs, outcome) ==
    IF outcome = "text" THEN GEN_TEXT
    ELSE get_fallback_response(retrieved_faqs)

\* ------------------------------------------------------- request handling

\* faulty variant: the lower length bound is off by one
ValidQuery_off_by_one(q) == q >= MinQueryLen - 1 /\ q <= MaxQueryLen

\* pydantic validation of QueryRequest.query
ValidQuery(q) == q >= MinQueryLen /\ q <= MaxQueryLen

\* faulty variant: the no-results branch is never taken
NoResults_never(retrieved_faqs) == FALSE

\* routes.py line 69: not retrieved_faqs
NoResults(retrieved_faqs) == Len(retrieved_faqs) = 0

\* faulty variant: the include_sources flag is ignored
Sources_always(include_sources, retrieved_faqs) == retrieved_faqs

\* routes.py line 80
Sources(include_sources, retrieved_faqs) ==
    IF include_sources THEN retrieved_faqs ELSE <<>>

FaqIds(retrieved_faqs) ==
    [ i \in 1..Len(retrieved_faqs) |-> retrieved_faqs[i].faq_id ]
Scores(retrieved_faqs) ==
    [ i \in 1..Len(retrieved_faqs) |-> retrieved_faqs[i].similarity_score ]

\* Database.log_interaction: the row the INSERT adds
Row(id, query, faq_ids, ai_response, rt, scores, error_occurred) ==
    [ id                |-> id,
      user_query        |-> query,
      retrieved_faq_ids |-> JsonDumps("str", faq_ids),
      ai_response       |-> ai_response,
      response_time_ms  |-> rt,
      relevance_scores  |-> JsonDumps("num", scores),
      error_occurred    |-> error_occurred ]

\* the stored row: the INSERT's values and timestamp DEFAULT CURRENT_TIMESTAMP
Stored(row, ts) ==
    [ id                |-> row.id,
      timestamp         |-> ts,
      user_query        |-> row.user_query,
      retrieved_faq_ids |-> row.retrieved_faq_ids,
      ai_response       |-> row.ai_response,
      response_time_ms  |-> row.response_time_ms,
      relevance_scores  |-> row.relevance_scores,
      error_occurred    |-> row.error_occurred ]

\* faulty variant: the id is read from the table before the insert (a
\* read-modify-write), so two inserts can get one id
NextId_stale == IF Len(interactions) = 0 THEN 1 ELSE Len(interactions)

\* AUTOINCREMENT primary key of an append-only table
NextId == Len(interactions) + 1

\* faulty variant: only the items shown to the caller are logged
SuccessRow_sources(id, req, retrieved_faqs, ans, rt) ==
    Row(id, req.query, FaqIds(Sources(req.include_sources, retrieved_faqs)),
        ans, rt, Scores(Sources(req.include_sources, retrieved_faqs)), FALSE)

\* routes.py lines 86-93: the arguments of the success-path log call
SuccessRow(id, req, retrieved_faqs, ans, rt) ==
    Row(id, req.query, FaqIds(retrieved_faqs), ans, rt,
        Scores(retrieved_faqs), FALSE)

\* faulty variant: error_occurred is left at its default
ErrorRow_flag_unset(id, req, e, rt) ==
    Row(id, req.query, <<>>, Str("Error: ") \o e, rt, <<>>, FALSE)

\* routes.py lines 110-117: the arguments of the error-path log call
ErrorRow(id, req, e, rt) ==
    Row(id, req.query, <<>>, Str("Error: ") \o e, rt, <<>>, TRUE)

\* a read endpoint that has not been called
NoCall == [ status |-> 0 ]

NoResponse == [ status |-> 0, answer |-> <<>>, sources |-> <<>>,
                response_time_ms |-> 0, detail |-> <<>> ]

\* routes.py lines 98-102
QueryResponse(ans, srcs, rt) ==
    [ status |-> 200, answer |-> ans, sources |-> srcs,
      response_time_ms |-> rt, detail |-> <<>> ]

\* routes.py lines 121-124
HTTPException(status_code, detail) ==
    [ status |-> status_code, answer |-> <<>>, sources |-> <<>>,
      response_time_ms |-> 0, detail |-> detail ]

\* FastAPI's answer to a body that fails validation
ValidationError ==
    HTTPException(422, Str("validation error"))

Event(r, e) == hist' = [hist EXCEPT ![r] = Append(@, e)]

\* a request arrives; FastAPI validates the body before calling the handler
Receive(r) ==
    /\ pc[r] = "Idle"
    /\ \E q \in QueryLens, inc \in BOOLEAN :
        /\ request' = [request EXCEPT ![r] =
                          [query |-> q, include_sources |-> inc]]
        /\ IF ValidQuery(q)
           THEN /\ pc' = [pc EXCEPT ![r] = "Embedding"]
                /\ UNCHANGED response
           ELSE /\ pc' = [pc EXCEPT ![r] = "Rejected"]
                /\ response' = [response EXCEPT ![r] = ValidationError]
    /\ UNCHANGED << retrieved, answer, sources, response_time_ms, error,
                    hist, written, interactions >>

\* the except clause is entered with exception e: routes.py lines 104-107
Raise(r, e) ==
    /\ error' = [error EXCEPT ![r] = e]
    /\ \E t \in Elapsed :
        /\ t >= response_time_ms[r]
        /\ response_time_ms' = [response_time_ms EXCEPT ![r] = t]
    /\ pc' = [pc EXCEPT ![r] = "ErrorLogging"]

\* step 1: await embedding_service.generate_embedding(request.query)
Embed(r) ==
    /\ pc[r] = "Embedding"
    /\ \E ok \in BOOLEAN :
        IF ok
        THEN /\ pc' = [pc EXCEPT ![r] = "Searching"]
             /\ Event(r, "embed_ok")
             /\ UNCHANGED << error, response_time_ms >>
        ELSE /\ Raise(r, EMBED_ERROR)
             /\ Event(r, "embed_fail")
    /\ UNCHANGED << request, retrieved, answer, sources, response, written,
                    interactions >>

\* step 2: await faq_retriever.search(...), then the no-results branch
Search(r) ==
    /\ pc[r] = "Searching"
    /\ \/ /\ Raise(r, SEARCH_ERROR)
          /\ Event(r, "search_fail")
          /\ UNCHANGED << retrieved, answer, sources >>
       \/ \E res \in SearchResults(collection) :
            /\ retrieved' = [retrieved EXCEPT ![r] = res]
            /\ Event(r, "search_ok")
            /\ UNCHANGED error
            /\ IF NoResults(res)
               THEN /\ answer' = [answer EXCEPT ![r] = NOT_FOUND]
                    /\ sources' = [sources EXCEPT ![r] = <<>>]
                    /\ \E t \in Elapsed :
                         response_time_ms' =
                             [response_time_ms EXCEPT ![r] = t]
                    /\ pc' = [pc EXCEPT ![r] = "Logging"]
               ELSE /\ pc' = [pc EXCEPT ![r] = "Generating"]
                    /\ UNCHANGED << answer, sources, response_time_ms >>
    /\ UNCHANGED << request, response, written, interactions >>

\* faulty variant: generate_answer has no except clause, a failure propagates
Generate_propagates(r) ==
    /\ pc[r] = "Generating"
    /\ \E outcome \in GenOutcomes :
        IF outcome = "text"
        THEN /\ answer' = [answer EXCEPT ![r] = GEN_TEXT]
             /\ Event(r, "gen_ok")
             /\ sources' = [sources EXCEPT ![r] =
                    Sources(request[r].include_sources, retrieved[r])]
             /\ \E t \in Elapsed :
                  response_time_ms' = [response_time_ms EXCEPT ![r] = t]
             /\ pc' = [pc EXCEPT ![r] = "Logging"]
             /\ UNCHANGED error
        ELSE /\ Raise(r, GEN_ERROR)
             /\ Event(r, "gen_fail")
             /\ UNCHANGED << answer, sources >>
    /\ UNCHANGED << request, retrieved, response, written, interactions >>

\* step 3: await answer_generator.generate_answer(...), sources, elapsed time
Generate(r) ==
    /\ pc[r] = "Generating"
    /\ \E outcome \in GenOutcomes :
        /\ answer' = [answer EXCEPT ![r] =
                         generate_answer(retrieved[r], outcome)]
        /\ Event(r, IF outcome = "text" THEN "gen_ok" ELSE "gen_fail")
    /\ sources' = [sources EXCEPT ![r] =
                      Sources(request[r].include_sources, retrieved[r])]
    /\ \E t \in Elapsed :
         response_time_ms' = [response_time_ms EXCEPT ![r] = t]
    /\ pc' = [pc EXCEPT ![r] = "Logging"]
    /\ UNCHANGED << request, retrieved, error, response, written,
                    interactions >>

\* faulty variant: the insert is committed before log_interaction raises
LogWrite_commit_then_raise(r) ==
    /\ pc[r] = "Logging"
    /\ \E ok \in BOOLEAN :
        /\ interactions' = Append(interactions,
               Stored(SuccessRow(NextId, request[r], retrieved[r], answer[r],
                          response_time_ms[r]), now))
        /\ written' = [written EXCEPT ![r] = Append(@, NextId)]
        /\ IF ok
           THEN /\ response' = [response EXCEPT ![r] =
                      QueryResponse(answer[r], sources[r],
                                    response_time_ms[r])]
                /\ pc' = [pc EXCEPT ![r] = "Completed"]
                /\ Event(r, "log_ok")
                /\ UNCHANGED << error, response_time_ms >>
           ELSE /\ Raise(r, DB_ERROR)
                /\ Event(r, "log_fail")
                /\ UNCHANGED response
    /\ UNCHANGED << request, retrieved, answer, sources >>

\* faulty variant: a failed success-path log write is swallowed
LogWrite_swallow(r) ==
    /\ pc[r] = "Logging"
    /\ \E ok \in BOOLEAN :
        /\ IF ok
           THEN /\ interactions' = Append(interactions,
                      Stored(SuccessRow(NextId, request[r], retrieved[r], answer[r],
                                 response_time_ms[r]), now))
                /\ written' = [written EXCEPT ![r] = Append(@, NextId)]
                /\ Event(r, "log_ok")
           ELSE /\ Event(r, "log_fail")
                /\ UNCHANGED << interactions, written >>
        /\ response' = [response EXCEPT ![r] =
               QueryResponse(answer[r], sources[r], response_time_ms[r])]
        /\ pc' = [pc EXCEPT ![r] = "Completed"]
    /\ UNCHANGED << request, retrieved, answer, sources, error,
                    response_time_ms >>

\* step 4 and 5: await database.log_interaction(...), return the response
LogWrite(r) ==
    /\ pc[r] = "Logging"
    /\ \E ok \in BOOLEAN :
        IF ok
        THEN /\ interactions' = Append(interactions,
                    Stored(SuccessRow(NextId, request[r], retrieved[r], answer[r],
                               response_time_ms[r]), now))
             /\ written' = [written EXCEPT ![r] = Append(@, NextId)]
             /\ response' = [response EXCEPT ![r] =
                    QueryResponse(answer[r], sources[r], response_time_ms[r])]
             /\ pc' = [pc EXCEPT ![r] = "Completed"]
             /\ Event(r, "log_ok")
             /\ UNCHANGED << error, response_time_ms >>
        ELSE /\ Raise(r, DB_ERROR)
             /\ Event(r, "log_fail")
             /\ UNCHANGED << interactions, written, response >>
    /\ UNCHANGED << request, retrieved, answer, sources >>

\* faulty variant: a failed error-log write is raised instead of swallowed
ErrorLog_reraise(r) ==
    /\ pc[r] = "ErrorLogging"
    /\ \E ok \in BOOLEAN :
        IF ok
        THEN /\ interactions' = Append(interactions,
                    Stored(ErrorRow(NextId, request[r], error[r],
                             response_time_ms[r]), now))
             /\ written' = [written EXCEPT ![r] = Append(@, NextId)]
             /\ Event(r, "errlog_ok")
             /\ response' = [response EXCEPT ![r] =
                    HTTPException(500, GENERIC_DETAIL)]
        ELSE /\ Event(r, "errlog_fail")
             /\ response' = [response EXCEPT ![r] =
                    HTTPException(500, DB_ERROR)]
             /\ UNCHANGED << interactions, written >>
    /\ pc' = [pc EXCEPT ![r] = "Failed"]
    /\ UNCHANGED << request, retrieved, answer, sources, response_time_ms,
                    error >>

\* the except clause: log the error (best effort), raise HTTPException(500)
ErrorLog(r) ==
    /\ pc[r] = "ErrorLogging"
    /\ \E ok \in BOOLEAN :
        IF ok
        THEN /\ interactions' = Append(interactions,
                    Stored(ErrorRow(NextId, request[r], error[r],
                             response_time_ms[r]), now))
             /\ written' = [written EXCEPT ![r] = Append(@, NextId)]
             /\ Event(r, "errlog_ok")
        ELSE /\ Event(r, "errlog_fail")
             /\ UNCHANGED << interactions, written >>
    /\ response' = [response EXCEPT ![r] = HTTPException(500, GENERIC_DETAIL)]
    /\ pc' = [pc EXCEPT ![r] = "Failed"]
    /\ UNCHANGED << request, retrieved, answer, sources, response_time_ms,
                    error >>

ReqInit ==
    /\ pc = [r \in Reqs |-> "Idle"]
    /\ request = [r \in Reqs |-> [query |-> 0, include_sources |-> TRUE]]
    /\ retrieved = [r \in Reqs |-> <<>>]
    /\ answer = [r \in Reqs |-> <<>>]
    /\ sources = [r \in Reqs |-> <<>>]
    /\ response_time_ms = [r \in Reqs |-> 0]
    /\ error = [r \in Reqs |-> NO_ERROR]
    /\ response = [r \in Reqs |-> NoResponse]
    /\ hist = [r \in Reqs |-> <<>>]
    /\ written = [r \in Reqs |-> <<>>]
    /\ interactions = <<>>

StartIdle ==
    /\ spc = "ready"
    /\ faq_count = NumFaqs
    /\ startups = 1
    /\ runCalls = <<>>
    /\ bootCollection = IndexedPoints

\* no read endpoint has been called; the clock stands at second 0
ReadIdle ==
    /\ now = 0
    /\ logsCall = NoCall
    /\ statsCall = NoCall

HealthIdle ==
    /\ openaiKey = TRUE
    /\ healthCall = NoCall

CompIdle ==
    /\ cpc = "idle"
    /\ cArgs = [user_query |-> MinQueryLen, retrieved_faqs |-> <<>>]
    /\ cPrompt = <<>>
    /\ cOut = <<>>

\* the service after a first start that indexed the bundled dataset
Init ==
    /\ ReqInit
    /\ collection = IndexedPoints
    /\ StartIdle
    /\ CompIdle
    /\ ReadIdle
    /\ HealthIdle

ReceiveRequest  == \E r \in Reqs : Receive(r) /\ UNCHANGED others
EmbedQuery      == \E r \in Reqs : Embed(r) /\ UNCHANGED others
SearchFaqs      == \E r \in Reqs : Search(r) /\ UNCHANGED others
GenerateAnswer  == \E r \in Reqs : Generate(r) /\ UNCHANGED others
LogInteraction  == \E r \in Reqs : LogWrite(r) /\ UNCHANGED others
LogError        == \E r \in Reqs : ErrorLog(r) /\ UNCHANGED others

Next ==
    \/ ReceiveRequest
    \/ EmbedQuery
    \/ SearchFaqs
    \/ GenerateAnswer
    \/ LogInteraction
    \/ LogError

Spec == Init /\ [][Next]_vars

\* ------------------------------------------------------------------ startup

EmptyCollection == [ p \in {} |-> 0 ]

\* QdrantClient.upsert: points are keyed by id, an existing id is replaced
Upsert(coll, points) ==
    [ p \in (DOMAIN coll) \cup (DOMAIN points) |->
        IF p \in DOMAIN points THEN points[p] ELSE coll[p] ]

\* FAQRetriever.get_faq_count: points_count, or 0 when get_collection raises
get_faq_count(coll, ok) ==
    IF ok THEN Cardinality(DOMAIN coll) ELSE 0

Call(c) == runCalls' = Append(runCalls, c)

\* the process starts: database, services, initialize_collection
StartupBegin ==
    /\ spc = "down"
    /\ startups < MaxStartups
    /\ startups' = startups + 1
    /\ runCalls' = <<>>
    /\ bootCollection' = collection
    /\ \E ok \in BOOLEAN :
         spc' = IF ok THEN "counting" ELSE "crashed"
    /\ UNCHANGED << faq_count, collection, reqVars, compVars, readVars, healthVars >>

\* main.py lines 84-85 and 104-108
StartupCount ==
    /\ spc = "counting"
    /\ \E ok \in BOOLEAN :
        /\ faq_count' = get_faq_count(collection, ok)
        /\ spc' = IF faq_count' = 0 THEN "embedding" ELSE "ready"
    /\ Call("get_faq_count")
    /\ UNCHANGED << startups, bootCollection, collection, reqVars, compVars, readVars, healthVars >>

\* main.py lines 86-98: load the dataset, embed all questions in one batch
StartupEmbed ==
    /\ spc = "embedding"
    /\ \E ok \in BOOLEAN :
         spc' = IF ok THEN "indexing" ELSE "crashed"
    /\ Call("generate_embeddings_batch")
    /\ UNCHANGED << faq_count, startups, bootCollection, collection,
                    reqVars, compVars, readVars, healthVars >>

\* main.py lines 100-108: index_faqs upserts one point per entry
StartupIndex ==
    /\ spc = "indexing"
    /\ \E ok \in BOOLEAN :
        IF ok
        THEN /\ collection' = Upsert(collection, IndexedPoints)
             /\ spc' = "ready"
        ELSE /\ spc' = "crashed"
             /\ UNCHANGED collection
    /\ Call("upsert")
    /\ UNCHANGED << faq_count, startups, bootCollection, reqVars, compVars, readVars, healthVars >>

\* the process stops; the Qdrant collection outlives it
Shutdown ==
    /\ spc \in { "ready", "crashed" }
    /\ spc' = "down"
    /\ UNCHANGED << faq_count, startups, runCalls, bootCollection,
                    collection, reqVars, compVars, readVars, healthVars >>

\* collections a starting process can find: empty, or holding entries of the
\* dataset indexed by an earlier run
PersistedCollections ==
    { [ p \in D |-> IndexedPoints[p] ] : D \in SUBSET FaqIdx }

StartupInit ==
    /\ ReqInit
    /\ CompIdle
    /\ ReadIdle
    /\ openaiKey \in BOOLEAN
    /\ healthCall = NoCall
    /\ collection \in PersistedCollections
    /\ spc = "down"
    /\ faq_count = 0
    /\ startups = 0
    /\ runCalls = <<>>
    /\ bootCollection = collection

\* routes.py health_check: key is bool(settings.openai_api_key), threw says
\* that a statement of the try block raised
health_check(coll, reachable, key, threw) ==
    IF threw
    THEN [ status |-> "unhealthy", qdrant_connected |-> FALSE,
           openai_configured |-> FALSE, faqs_loaded |-> 0 ]
    ELSE LET count == get_faq_count(coll, reachable)
             qdrant_connected == count >= 0
         IN  [ status |-> IF qdrant_connected /\ key
                          THEN "healthy" ELSE "degraded",
               qdrant_connected |-> qdrant_connected,
               openai_configured |-> key,
               faqs_loaded |-> count ]

\* GET /api/health on a started process; the call keeps what the store and
\* the handler did next to the response
HealthCheck ==
    /\ spc = "ready"
    /\ \E reachable \in BOOLEAN, threw \in BOOLEAN :
         healthCall' = [ reachable |-> reachable,
                         threw     |-> threw,
                         body      |-> health_check(collection, reachable,
                                                    openaiKey, threw) ]
    /\ UNCHANGED << reqVars, collection, startVars, compVars, readVars,
                    openaiKey >>

StartupNext ==
    \/ StartupBegin
    \/ StartupCount
    \/ StartupEmbed
    \/ StartupIndex
    \/ Shutdown
    \/ HealthCheck

SpecStartup == StartupInit /\ [][StartupNext]_vars

\* ------------------------------------------- generate_answer called alone

\* AnswerGenerator._build_context
RECURSIVE ContextParts(_, _)
ContextParts(retrieved_faqs, idx) ==
    IF idx > Len(retrieved_faqs) THEN <<>>
    ELSE LET faq == retrieved_faqs[idx]
         IN  << <<"FAQ", idx>> >> \o Str("(Category: ") \o faq.category
             \o << <<"Relevance .2f", faq.similarity_score>> >>
             \o Str("Question: ") \o faq.question
             \o Str("Answer: ") \o faq.answer
             \o ContextParts(retrieved_faqs, idx + 1)

build_context(retrieved_faqs) ==
    IF Len(retrieved_faqs) = 0
    THEN Str("No relevant FAQs were found in the database.")
    ELSE Str("Here are the relevant FAQs from our database:")
         \o ContextParts(retrieved_faqs, 1)

\* AnswerGenerator._build_user_prompt
build_user_prompt(user_query, context) ==
    context \o << <<"User Question", user_query>> >>
        \o Str("Please provide a helpful answer based on the FAQ context above. If the context doesn't fully address the question, acknowledge the limitations and recommend consulting with an attorney.")

\* generate_answer lines 99-110: the messages of the chat completion call
ComposeCall ==
    /\ cpc = "idle"
    /\ cPrompt' = << Str("SYSTEM_PROMPT"),
                     build_user_prompt(cArgs.user_query,
                         build_context(cArgs.retrieved_faqs)) >>
    /\ cpc' = "called"
    /\ UNCHANGED << cArgs, cOut, reqVars, collection, startVars, readVars, healthVars >>

\* generate_answer lines 112-119: the call resolves
ComposeReturn ==
    /\ cpc = "called"
    /\ \E outcome \in GenOutcomes :
        /\ cOut' = generate_answer(cArgs.retrieved_faqs, outcome)
        /\ cpc' = IF outcome = "text" THEN "generated"
                  ELSE IF outcome = "raise" THEN "fallback_api_error"
                  ELSE "fallback_type_error"
    /\ UNCHANGED << cArgs, cPrompt, reqVars, collection, startVars, readVars, healthVars >>

ComposeInit ==
    /\ ReqInit
    /\ StartIdle
    /\ ReadIdle
    /\ HealthIdle
    /\ collection = IndexedPoints
    /\ cpc = "idle"
    /\ cArgs \in [ user_query : { MinQueryLen, MaxQueryLen },
                   retrieved_faqs : SearchResults(IndexedPoints) ]
    /\ cPrompt = <<>>
    /\ cOut = <<>>

ComposeNext ==
    \/ ComposeCall
    \/ ComposeReturn

SpecCompose == ComposeInit /\ [][ComposeNext]_vars

\* -------------------------------------------------- the interaction logger

\* Database.log_interaction: one INSERT, committed at once
log_interaction(table, row, ts) == Append(table, Stored(row, ts))

RECURSIVE SumTimes(_)
SumTimes(table) ==
    IF Len(table) = 0 THEN 0
    ELSE table[1].response_time_ms + SumTimes(Tail(table))

RECURSIVE CountErrors(_)
CountErrors(table) ==
    IF Len(table) = 0 THEN 0
    ELSE (IF table[1].error_occurred THEN 1 ELSE 0) + CountErrors(Tail(table))

\* num / den rounded to the nearest integer, a tie to the even one
RoundHalfEven(num, den) ==
    LET q == num \div den
        r == num % den
    IN  IF 2 * r < den THEN q
        ELSE IF 2 * r > den THEN q + 1
        ELSE IF q % 2 = 0 THEN q ELSE q + 1

\* faulty variant: the average is truncated, not rounded
Round2_truncated(total, count) ==
    IF count = 0 THEN 0 ELSE (100 * total) \div count

\* round(AVG(response_time_ms) or 0, 2), kept in hundredths of a millisecond
Round2(total, count) ==
    IF count = 0 THEN 0 ELSE RoundHalfEven(100 * total, count)

\* Database.get_stats: COUNT(*), AVG(response_time_ms), SUM(CASE ...)
get_stats(table) ==
    [ total_queries        |-> Len(table),
      avg_response_time_ms |-> Round2(SumTimes(table), Len(table)),
      total_errors         |-> CountErrors(table) ]

STATS_FAILED == Str("Failed to retrieve statistics")

\* routes.py get_statistics: the statistics and the FAQ count, or HTTP 500
get_statistics(table, coll, ok, qdrant_ok) ==
    IF ok
    THEN LET stats == get_stats(table)
         IN  [ status               |-> 200,
               seen                 |-> Len(table),
               total_queries        |-> stats.total_queries,
               avg_response_time_ms |-> stats.avg_response_time_ms,
               total_errors         |-> stats.total_errors,
               faqs_in_database     |-> get_faq_count(coll, qdrant_ok) ]
    ELSE [ status |-> 500, seen |-> Len(table), detail |-> STATS_FAILED ]

\* the request a logged row comes from
LoggedRequest == [ query |-> MinQueryLen, include_sources |-> TRUE ]

\* the rows ask_question hands to log_interaction
LoggedRows(id) ==
    { SuccessRow(id, LoggedRequest, <<>>, NOT_FOUND, rt) : rt \in Elapsed }
    \cup { ErrorRow(id, LoggedRequest, EMBED_ERROR, rt) : rt \in Elapsed }

\* a second passes
Tick ==
    /\ now < MaxClock
    /\ now' = now + 1
    /\ UNCHANGED << reqVars, collection, startVars, compVars, logsCall,
                    statsCall, healthVars >>

\* a request records its interaction
RecordInteraction ==
    /\ Len(interactions) < MaxRows
    /\ \E row \in LoggedRows(NextId) :
         interactions' = log_interaction(interactions, row, now)
    /\ UNCHANGED << handlerVars, collection, startVars, compVars, readVars,
                    healthVars >>

\* GET /api/stats
GetStats ==
    /\ \E ok \in BOOLEAN, qdrant_ok \in BOOLEAN :
         statsCall' = get_statistics(interactions, collection, ok, qdrant_ok)
    /\ UNCHANGED << reqVars, collection, startVars, compVars, now, logsCall,
                    healthVars >>

LOGS_FAILED == Str("Failed to retrieve interaction logs")

\* values of the limit parameter, which the route does not validate
Limits == { -1, 1, DefaultLimit }

\* the orders ORDER BY timestamp DESC allows: rows of one second tie, and
\* the statement leaves the order of tied rows open
Orderings(table) ==
    { f \in [ 1..Len(table) -> 1..Len(table) ] :
        /\ \A i, j \in 1..Len(table) : i # j => f[i] # f[j]
        /\ \A i, j \in 1..Len(table) :
             i < j => table[f[i]].timestamp >= table[f[j]].timestamp }

\* LIMIT ?: a negative limit is no limit
Limited(count, limit) == IF limit < 0 THEN count ELSE Min2(count, limit)

\* Database.get_logs: the lists the SELECT may return
get_logs(table, limit) ==
    IF Limited(Len(table), limit) = 0
    THEN { <<>> }
    ELSE { [ i \in 1..Limited(Len(table), limit) |-> table[f[i]] ] :
             f \in Orderings(table) }

\* routes.py get_interaction_logs: the rows as they are, or HTTP 500
get_interaction_logs(table, limit, ok) ==
    IF ok
    THEN { [ status |-> 200, limit |-> limit, seen |-> Len(table),
             body |-> logs ] : logs \in get_logs(table, limit) }
    ELSE { [ status |-> 500, limit |-> limit, seen |-> Len(table),
             detail |-> LOGS_FAILED ] }

\* GET /api/logs?limit=N
GetLogs ==
    /\ \E limit \in Limits, ok \in BOOLEAN :
         logsCall' \in get_interaction_logs(interactions, limit, ok)
    /\ UNCHANGED << reqVars, collection, startVars, compVars, now, statsCall,
                    healthVars >>

LoggerInit == Init

LoggerNext ==
    \/ Tick
    \/ RecordInteraction
    \/ GetLogs
    \/ GetStats

SpecLogger == LoggerInit /\ [][LoggerNext]_vars

\* ------------------------------------- one request and the read endpoints

\* the request followed through POST /api/ask while the log is read
SurfaceReqs == { 1 }

AskReceive  == \E r \in SurfaceReqs : Receive(r) /\ UNCHANGED others
AskEmbed    == \E r \in SurfaceReqs : Embed(r) /\ UNCHANGED others
AskSearch   == \E r \in SurfaceReqs : Search(r) /\ UNCHANGED others
AskGenerate == \E r \in SurfaceReqs : Generate(r) /\ UNCHANGED others
AskLog      == \E r \in SurfaceReqs : LogWrite(r) /\ UNCHANGED others
AskLogError == \E r \in SurfaceReqs : ErrorLog(r) /\ UNCHANGED others

SurfaceInit == Init

SurfaceNext ==
    \/ AskReceive
    \/ AskEmbed
    \/ AskSearch
    \/ AskGenerate
    \/ AskLog
    \/ AskLogError
    \/ GetLogs
    \/ GetStats

SpecSurface == SurfaceInit /\ [][SurfaceNext]_vars

\* ------------------------------------------------------------- properties

Has(h, e) == \E i \in 1..Len(h) : h[i] = e

Terminal(r) == pc[r] \in { "Completed", "Failed" }

\* the rows of the table a request's inserts committed
RowsOf(r) == [ i \in 1..Len(written[r]) |-> interactions[written[r][i]] ]

GenericFailure == HTTPException(500, GENERIC_DETAIL)

EMPTY_JSON_LIST == << Lit("["), Lit("]") >>

\* C1 as claimed: every finished request has written exactly one log entry,
\* whatever the outcomes of the embedding, search, generation and log calls.
C1_ExactlyOneEntry ==
    \A r \in Reqs : Terminal(r) => Len(written[r]) = 1

\* C1 amended: a request never writes two log entries and writes none
\* before it finishes; a finished request has written exactly one entry
\* unless its error-log write failed, and then it has written none.
C1_AtMostOneEntry ==
    /\ \A r \in Reqs :
        /\ Len(written[r]) <= 1
        /\ ~Terminal(r) => Len(written[r]) = 0
        /\ Terminal(r) =>
              (Len(written[r]) = 0 <=> Has(hist[r], "errlog_fail"))
    /\ Len(interactions) =
          Cardinality({ r \in Reqs : Len(written[r]) = 1 })

\* C1 witness: both log writes were attempted, the first failed, the second
\* succeeded, and one entry was written.
C1_Witness ==
    \E r \in Reqs :
        /\ pc[r] = "Failed"
        /\ Has(hist[r], "log_fail")
        /\ Has(hist[r], "errlog_ok")
        /\ Len(written[r]) = 1

SearchedEmpty(r) == Has(hist[r], "search_ok") /\ Len(retrieved[r]) = 0

NoResultsOutcome(r) ==
    /\ pc[r] = "Completed"
    /\ response[r].status = 200
    /\ response[r].sources = <<>>
    /\ response[r].answer = NOT_FOUND
    /\ Len(written[r]) = 1
    /\ RowsOf(r)[1].error_occurred = FALSE
    /\ RowsOf(r)[1].retrieved_faq_ids = EMPTY_JSON_LIST

\* C2 as claimed: every finished request whose search returned the empty
\* list got the "not found" answer with no sources and wrote one entry with
\* error_occurred false and an empty id list.
C2_NoResultsAlways ==
    \A r \in Reqs : (Terminal(r) /\ SearchedEmpty(r)) => NoResultsOutcome(r)

\* C2 amended: the same, for the requests whose success-path log write
\* succeeded.
C2_NoResultsWhenLogged ==
    \A r \in Reqs :
        (SearchedEmpty(r) /\ Has(hist[r], "log_ok")) => NoResultsOutcome(r)

\* C2 witness: a request with an empty search result has completed.
C2_Witness ==
    \E r \in Reqs :
        SearchedEmpty(r) /\ pc[r] = "Completed" /\ ~Has(hist[r], "gen_ok")

\* C3: when search returned at least one item, the sources of the response
\* are empty if include_sources is false and are the retrieved items, in
\* order, if it is true.
C3_Sources ==
    \A r \in Reqs :
        (pc[r] = "Completed" /\ Len(retrieved[r]) >= 1) =>
            /\ response[r].status = 200
            /\ ~request[r].include_sources => response[r].sources = <<>>
            /\ request[r].include_sources =>
                   response[r].sources = retrieved[r]

\* C3 witness: two items were retrieved and the flag was off.
C3_Witness ==
    \E r \in Reqs :
        /\ pc[r] = "Completed"
        /\ Len(retrieved[r]) = 2
        /\ ~request[r].include_sources
        /\ response[r].sources = <<>>

UpstreamFailed(r) ==
    Has(hist[r], "embed_fail") \/ Has(hist[r], "search_fail")

NeverGenerated(r) ==
    ~Has(hist[r], "gen_ok") /\ ~Has(hist[r], "gen_fail")

\* C4 as claimed: after an embedding or search failure the generator is not
\* called, an error entry is written whose answer is the error's string,
\* with no ids, no scores and the flag set, and the caller gets the generic
\* HTTP 500.
C4_ErrorRecordWritten ==
    \A r \in Reqs :
        (Terminal(r) /\ UpstreamFailed(r)) =>
            /\ NeverGenerated(r)
            /\ Len(written[r]) = 1
            /\ RowsOf(r)[1].ai_response = error[r]
            /\ RowsOf(r)[1].retrieved_faq_ids = EMPTY_JSON_LIST
            /\ RowsOf(r)[1].relevance_scores = EMPTY_JSON_LIST
            /\ RowsOf(r)[1].error_occurred = TRUE
            /\ response[r] = GenericFailure

\* C4 amended: after an embedding or search failure the generator is not
\* called and one error-log write is attempted; if it succeeds the entry's
\* answer is "Error: " followed by the error's string, with no ids, no
\* scores and the flag set; if it fails no entry is written; either way the
\* caller gets the generic HTTP 500.
C4_ErrorRecordBestEffort ==
    \A r \in Reqs :
        UpstreamFailed(r) =>
            /\ NeverGenerated(r)
            /\ ~Has(hist[r], "log_ok") /\ ~Has(hist[r], "log_fail")
            /\ pc[r] \in { "ErrorLogging", "Failed" }
            /\ error[r] \in { EMBED_ERROR, SEARCH_ERROR }
            /\ pc[r] = "Failed" =>
                /\ response[r] = GenericFailure
                /\ Has(hist[r], "errlog_ok") \/ Has(hist[r], "errlog_fail")
                /\ Has(hist[r], "errlog_fail") => Len(written[r]) = 0
                /\ Has(hist[r], "errlog_ok") =>
                    /\ Len(written[r]) = 1
                    /\ RowsOf(r)[1].ai_response = Str("Error: ") \o error[r]
                    /\ RowsOf(r)[1].retrieved_faq_ids = EMPTY_JSON_LIST
                    /\ RowsOf(r)[1].relevance_scores = EMPTY_JSON_LIST
                    /\ RowsOf(r)[1].error_occurred = TRUE
                    /\ RowsOf(r)[1].user_query = request[r].query

\* C4 witness: a search failure whose error entry was written.
C4_Witness ==
    \E r \in Reqs :
        /\ Has(hist[r], "search_fail")
        /\ pc[r] = "Failed"
        /\ Len(written[r]) = 1
        /\ RowsOf(r)[1].error_occurred

GenerationFailed(r) == Has(hist[r], "gen_fail")

FallbackCompleted(r) ==
    /\ pc[r] = "Completed"
    /\ response[r].status = 200
    /\ response[r].answer =
          FALLBACK_HEAD \o retrieved[r][1].answer \o FALLBACK_DISCLAIMER
              \o FALLBACK_UNAVAILABLE
    /\ Len(written[r]) = 1
    /\ RowsOf(r)[1].error_occurred = FALSE
    /\ RowsOf(r)[1].retrieved_faq_ids = JsonDumps("str", FaqIds(retrieved[r]))

MaxScore(retrieved_faqs) ==
    CHOOSE m \in { retrieved_faqs[i].similarity_score :
                     i \in 1..Len(retrieved_faqs) } :
        \A i \in 1..Len(retrieved_faqs) :
            retrieved_faqs[i].similarity_score <= m

Malformed(q) == q < MinQueryLen \/ q > MaxQueryLen

\* C7: a request whose query is shorter than 5 or longer than 500
\* characters is rejected with no embedding, search, generation or log
\* call made for it.
C7_MalformedRejected ==
    \A r \in Reqs :
        (pc[r] # "Idle" /\ Malformed(request[r].query)) =>
            /\ pc[r] = "Rejected"
            /\ hist[r] = <<>>
            /\ written[r] = <<>>
            /\ response[r].status = 422

\* C7 witness: a query one character too short was rejected while the log
\* holds another request's entry.
C7_Witness ==
    \E r \in Reqs :
        /\ pc[r] = "Rejected"
        /\ request[r].query = MinQueryLen - 1
        /\ Len(interactions) = 1

\* C8: when the error-log write fails the failure is swallowed: the request
\* ends Failed and the caller gets the generic failure, the same as when
\* the write succeeds.
C8_ErrorLogFailureSwallowed ==
    \A r \in Reqs :
        /\ Has(hist[r], "errlog_fail") =>
              /\ pc[r] = "Failed"
              /\ response[r] = GenericFailure
              /\ response[r].detail # error[r]
              /\ Len(written[r]) = 0
        /\ pc[r] = "Failed" => response[r] = GenericFailure

\* C8 witness: an embedding failure followed by a failed error-log write.
C8_Witness ==
    \E r \in Reqs :
        /\ Has(hist[r], "embed_fail")
        /\ Has(hist[r], "errlog_fail")
        /\ pc[r] = "Failed"

\* C9: when the success-path log write fails, the request fails: an
\* error-log write is attempted and the caller gets the generic failure, not
\* the computed answer.
C9_LogFailureFailsRequest ==
    \A r \in Reqs :
        Has(hist[r], "log_fail") =>
            /\ answer[r] # <<>>
            /\ pc[r] \in { "ErrorLogging", "Failed" }
            /\ error[r] = DB_ERROR
            /\ pc[r] = "ErrorLogging" => response[r] = NoResponse
            /\ pc[r] = "Failed" =>
                /\ response[r] = GenericFailure
                /\ response[r].answer # answer[r]
                /\ Has(hist[r], "errlog_ok") \/ Has(hist[r], "errlog_fail")

\* C9 witness: an answer was generated, the log write failed, the request
\* failed.
C9_Witness ==
    \E r \in Reqs :
        /\ Has(hist[r], "gen_ok")
        /\ Has(hist[r], "log_fail")
        /\ pc[r] = "Failed"

\* C10 as claimed: a startup run that finds N > 0 items in the collection
\* makes no embedding call and no upsert, and leaves the collection as it
\* found it.
C10_StartupIdempotent ==
    Cardinality(DOMAIN bootCollection) > 0 =>
        /\ ~Has(runCalls, "generate_embeddings_batch")
        /\ ~Has(runCalls, "upsert")
        /\ collection = bootCollection

\* the rows a read of the table saw: the table only grows
Seen(call) == SubSeq(interactions, 1, call.seen)

Abs(x) == IF x < 0 THEN -x ELSE x

\* C11: the statistics report total_queries = number of entries,
\* total_errors = number of entries with the error flag set, and
\* avg_response_time_ms = the mean of response_time_ms over all entries
\* rounded to 2 decimals (at most half a hundredth away from the mean),
\* 0 when there are no entries
C11_Stats ==
    statsCall.status = 200 =>
        LET rows == Seen(statsCall)
            n    == Len(rows)
        IN  /\ statsCall.total_queries = n
            /\ statsCall.total_errors =
                 Cardinality({ i \in 1..n : rows[i].error_occurred })
            /\ n = 0 => statsCall.avg_response_time_ms = 0
            /\ n > 0 =>
                 2 * Abs(100 * SumTimes(rows)
                         - n * statsCall.avg_response_time_ms) <= n

\* statistics over three entries, one of them an error, whose mean (2/3 ms)
\* has no exact 2-decimal value
C11_Witness ==
    /\ statsCall.status = 200
    /\ statsCall.total_queries = 3
    /\ statsCall.total_errors = 1
    /\ statsCall.avg_response_time_ms = 67

\* the ids of the entries a list returns
ReturnedIds(body) == { body[i].id : i \in 1..Len(body) }

\* ids are handed out in the order of recording: the later entry has the
\* larger id; in a most-recent-first list the ids decrease
RecentFirst(body) ==
    \A i, j \in 1..Len(body) : i < j => body[i].id > body[j].id

\* no entry left out was recorded later than a returned one
NoNewerOmitted(body, count) ==
    \A k \in (1..count) \ ReturnedIds(body) :
        \A id \in ReturnedIds(body) : id > k

\* C12: get_logs returns at most limit entries, the most recently recorded
\* ones in most-recent-first order: of two returned entries the one recorded
\* later comes first, and no omitted entry was recorded later than a
\* returned one
C12_MostRecentFirst ==
    logsCall.status = 200 =>
        /\ Len(logsCall.body) <= logsCall.limit
        /\ RecentFirst(logsCall.body)
        /\ NoNewerOmitted(logsCall.body, logsCall.seen)

\* the order alone, for a limit that is not negative
C12_OrderForNaturalLimit ==
    (logsCall.status = 200 /\ logsCall.limit >= 0) =>
        /\ RecentFirst(logsCall.body)
        /\ NoNewerOmitted(logsCall.body, logsCall.seen)

\* C13: the health check reports "degraded" whenever exactly one of the two
\* dependencies is available, "healthy" only when both are, "unhealthy" only
\* if the health check itself throws; qdrant_connected tells whether the
\* vector store is reachable
C13_Health ==
    healthCall # NoCall =>
        LET body == healthCall.body
            up   == healthCall.reachable
        IN  /\ (~healthCall.threw /\ (up # openaiKey)) =>
                 body.status = "degraded"
            /\ body.status = "healthy" => (up /\ openaiKey)
            /\ body.status = "unhealthy" => healthCall.threw
            /\ ~healthCall.threw => (body.qdrant_connected <=> up)

\* what the code does guarantee: the status follows the two flags of the
\* response, and the key flag is the configured key
C13_StatusFollowsFlags ==
    (healthCall # NoCall /\ ~healthCall.threw) =>
        LET body == healthCall.body
        IN  /\ body.openai_configured = openaiKey
            /\ body.qdrant_connected
            /\ body.status = (IF openaiKey THEN "healthy" ELSE "degraded")

\* the texts the upstream calls raise
UpstreamErrors == { EMBED_ERROR, SEARCH_ERROR, DB_ERROR, GEN_ERROR }

Exposes(text) == \E e \in UpstreamErrors : Contains(text, e)

\* some upstream call of some request has failed
SomeUpstreamFailure ==
    \E r \in Reqs :
        \/ Has(hist[r], "embed_fail")
        \/ Has(hist[r], "search_fail")
        \/ Has(hist[r], "gen_fail")
        \/ Has(hist[r], "log_fail")

\* the response of POST /api/ask carries no upstream error text
AskGeneric ==
    \A r \in Reqs :
        /\ ~Exposes(response[r].answer)
        /\ ~Exposes(response[r].detail)

\* the response of GET /api/logs carries no upstream error text
LogsGeneric ==
    /\ logsCall.status = 200 =>
         \A i \in 1..Len(logsCall.body) : ~Exposes(logsCall.body[i].ai_response)
    /\ logsCall.status = 500 => ~Exposes(logsCall.detail)

\* the response of GET /api/stats carries no text at all unless it fails
StatsGeneric == statsCall.status = 500 => ~Exposes(statsCall.detail)

\* C14: after any failure of an upstream call, no response of the HTTP
\* surface (the failure response of /api/ask, later /api/logs and /api/stats
\* responses) contains the text of the upstream error
C14_NoRawErrorText ==
    SomeUpstreamFailure => (AskGeneric /\ LogsGeneric /\ StatsGeneric)

\* the part that holds: /api/ask and /api/stats expose fixed texts only
C14_AskAndStatsGeneric == AskGeneric /\ StatsGeneric

\* C15: on every successful path the single log entry holds the request's
\* query, the identifiers and the similarity scores of all retrieved items
\* in retrieval order whatever include_sources is, error flag false, and
\* the answer text and the elapsed time that the response returns
C15_SuccessEntry ==
    \A r \in Reqs :
        pc[r] = "Completed" =>
            /\ Len(written[r]) = 1
            /\ LET row == RowsOf(r)[1]
                   n   == Len(retrieved[r])
               IN  /\ row.user_query = request[r].query
                   /\ row.retrieved_faq_ids =
                        JsonDumps("str",
                                  [ i \in 1..n |-> retrieved[r][i].faq_id ])
                   /\ row.relevance_scores =
                        JsonDumps("num",
                            [ i \in 1..n |-> retrieved[r][i].similarity_score ])
                   /\ ~row.error_occurred
                   /\ row.ai_response = response[r].answer
                   /\ row.response_time_ms = response[r].response_time_ms

\* a completed request that asked for no sources, with two retrieved items
\* and a generated answer
C15_Witness ==
    \E r \in Reqs :
        /\ pc[r] = "Completed"
        /\ ~request[r].include_sources
        /\ Len(retrieved[r]) = 2
        /\ response[r].sources = <<>>
        /\ response[r].answer = GEN_TEXT
        /\ Len(written[r]) = 1

\* the last log write of a request was committed
LogCommitted(r) == Has(hist[r], "log_ok") \/ Has(hist[r], "errlog_ok")

\* the entry holds the data of request r and of no other request
EntryOf(row, r) ==
    /\ row.user_query = request[r].query
    /\ row.response_time_ms = response_time_ms[r]
    /\ IF row.error_occurred
       THEN /\ row.ai_response = Str("Error: ") \o error[r]
            /\ row.retrieved_faq_ids = EMPTY_JSON_LIST
            /\ row.relevance_scores = EMPTY_JSON_LIST
       ELSE /\ row.ai_response = answer[r]
            /\ row.retrieved_faq_ids =
                 JsonDumps("str", [ i \in 1..Len(retrieved[r]) |->
                                      retrieved[r][i].faq_id ])
            /\ row.relevance_scores =
                 JsonDumps("num", [ i \in 1..Len(retrieved[r]) |->
                                      retrieved[r][i].similarity_score ])

\* every entry has its own id and was inserted by exactly one request
EntriesDistinct ==
    /\ \A i, j \in 1..Len(interactions) :
         i # j => interactions[i].id # interactions[j].id
    /\ \A i \in 1..Len(interactions) :
         Cardinality({ r \in Reqs : Has(written[r], i) }) = 1

\* a step neither changes nor removes an entry
AppendOnly ==
    /\ Len(interactions') >= Len(interactions)
    /\ \A i \in 1..Len(interactions) : interactions'[i] = interactions[i]

\* C16 as claimed: for any interleaving of the requests the log ends with
\* exactly one intact entry per request, each with a distinct id and with
\* the fields of that request only, and entries are never updated or deleted
C16_ExactlyOnePerRequest ==
    /\ [](/\ EntriesDistinct
          /\ \A r \in Reqs :
               Terminal(r) =>
                   /\ Len(written[r]) = 1
                   /\ EntryOf(RowsOf(r)[1], r))
    /\ [][AppendOnly]_vars

\* C16, amended: for any interleaving of the requests the log ends with at
\* most one entry per request and exactly one for each request whose last
\* log write was committed, each with a distinct id and with the fields of
\* that request only, and entries are never updated or deleted
C16_AtomicInserts ==
    /\ [](/\ EntriesDistinct
          /\ \A r \in Reqs :
               Terminal(r) =>
                   /\ Len(written[r]) = (IF LogCommitted(r) THEN 1 ELSE 0)
                   /\ \A i \in 1..Len(written[r]) : EntryOf(RowsOf(r)[i], r))
    /\ [][AppendOnly]_vars

\* both requests have finished with different queries, one completed and
\* one failed, the failed one inserted first, and each has its own entry
C16_Witness ==
    /\ pc[1] = "Completed"
    /\ pc[2] = "Failed"
    /\ request[1].query # request[2].query
    /\ written[1] = << 2 >>
    /\ written[2] = << 1 >>
    /\ Len(retrieved[1]) > 0


====
